---------------------------- MODULE Spec2Model ----------------------------
(***************************************************************************)
(* A model of the xvm-cni plugin: the IPAM allocator (pkg/ipam) with its   *)
(* persisted record, and the ADD / DEL / CHECK lifecycle commands of the   *)
(* plugin's main package acting on the kernel's links, addresses and       *)
(* routes.                                                                 *)
(*                                                                         *)
(* An address (net.IP) is a sequence of bytes, 4 long (IPv4 form) or 16    *)
(* long (the IPv4-in-IPv6 form net.ParseIP returns).  A workload           *)
(* identifier (container ID) is an opaque string, modelled as a number.    *)
(***************************************************************************)
EXTENDS Integers, Sequences, FiniteSets, TLC

VARIABLES
    conf,       \* the network configuration handed to the plugin / the allocator
    file,       \* <dataDir>/allocations.json
    dirExists,  \* whether the data directory exists
    diskFaults, \* whether writes of the record file may fail
    ipam,       \* the open allocator instance (its in-memory fields)
    last,       \* the last allocator call: its arguments, results and pre-state
    links,      \* the kernel's links, per network namespace
    ipForward,  \* sysctl net.ipv4.ip_forward
    lastCmd,    \* the last lifecycle command: its arguments and its outcome
    lastVx,     \* the last call of pkg/vxlan: its arguments, result and pre-state
    procs,      \* the concurrent callers of the allocator: where each one is
    mutex       \* i.mutex: the caller holding it, 0 if none

vars ==
    <<conf, file, dirExists, diskFaults, ipam, last, links, ipForward, lastCmd,
      lastVx, procs, mutex>>

----------------------------------------------------------------------------
(* Bounds *)

\* How many distinct workload identifiers the calls draw from.
NumWorkloads == 3

WorkloadIDs == 1..NumWorkloads

\* The containers the runtime invokes the plugin for.
NumContainers == 2

ContainerIDs == 1..NumContainers

\* The concurrent callers of the allocator (goroutines on one instance, or
\* processes on one data directory).
NumProcs == 2

ProcIDs == 1..NumProcs

----------------------------------------------------------------------------
(* net.IP, net.IPNet *)

\* A byte holds 0..255: ip[j]++ wraps to 0 at 256.
ByteMod == 256

v4InV6Prefix == <<0, 0, 0, 0, 0, 0, 0, 0, 0, 0, 255, 255>>

NoIP == <<>>

\* net.IP.To4: the 4-byte form of an IPv4 address, NoIP (nil) otherwise.
To4(ip) ==
    IF Len(ip) = 4 THEN ip
    ELSE IF Len(ip) = 16 /\ SubSeq(ip, 1, 12) = v4InV6Prefix
         THEN SubSeq(ip, 13, 16)
         ELSE NoIP

\* net.IP.Equal: an IPv4 address and its IPv4-in-IPv6 form are equal.
IPEqual(ip, x) ==
    IF Len(ip) = Len(x) THEN ip = x
    ELSE IF Len(ip) = 4 /\ Len(x) = 16
         THEN SubSeq(x, 1, 12) = v4InV6Prefix /\ ip = SubSeq(x, 13, 16)
    ELSE IF Len(ip) = 16 /\ Len(x) = 4
         THEN SubSeq(ip, 1, 12) = v4InV6Prefix /\ SubSeq(ip, 13, 16) = x
    ELSE FALSE

RECURSIVE Pow2(_)
Pow2(n) == IF n = 0 THEN 1 ELSE 2 * Pow2(n - 1)

\* One byte of net.CIDRMask(ones, 32): the leading `bits` bits set.
MaskByte(bits) == ByteMod - Pow2(8 - bits)

\* net.CIDRMask(ones, 32).
CIDRMask(ones) ==
    [i \in 1..4 |->
        LET b == ones - 8 * (i - 1)
        IN  MaskByte(IF b < 0 THEN 0 ELSE IF b > 8 THEN 8 ELSE b)]

\* x & m for a byte x and a mask byte m of the form MaskByte(bits).
AndMask(x, m) == x - (x % (ByteMod - m))

\* net.IP.Mask for a 4-byte address.
MaskIP(ip, mask) == [i \in 1..4 |-> AndMask(ip[i], mask[i])]

\* net.IPNet.Contains.
Contains(n, ip) ==
    LET x == IF To4(ip) # NoIP THEN To4(ip) ELSE ip
    IN  /\ Len(x) = Len(n.IP)
        /\ \A i \in 1..Len(x) : AndMask(n.IP[i], n.Mask[i]) = AndMask(x[i], n.Mask[i])

\* The textual forms.  A dotted-decimal string is a record holding its four
\* decimal fields; a CIDR string holds the address fields and the prefix length;
\* anything else (the empty string, "bogus") does not parse.
IsDotted(s) ==
    /\ DOMAIN s = {"dotted"}
    /\ Len(s.dotted) = 4
    /\ \A i \in 1..4 : s.dotted[i] \in 0..(ByteMod - 1)

IsCIDR(s) ==
    /\ DOMAIN s = {"dotted", "ones"}
    /\ Len(s.dotted) = 4
    /\ \A i \in 1..4 : s.dotted[i] \in 0..(ByteMod - 1)
    /\ s.ones \in 0..32

Text(kind) == [raw |-> kind]

\* net.ParseIP: the 16-byte form of an IPv4 string, NoIP (nil) if it does not parse.
ParseIP(s) == IF IsDotted(s) THEN v4InV6Prefix \o s.dotted ELSE NoIP

\* net.IP.String.
IPString(ip) ==
    IF To4(ip) # NoIP THEN [dotted |-> To4(ip)] ELSE Text("?")

NoNet == [IP |-> NoIP, Mask |-> NoIP]

\* net.ParseCIDR: the network (address masked, 4 bytes) and its mask.
ParseCIDR(s) ==
    IF IsCIDR(s)
    THEN [ok |-> TRUE,
          net |-> [IP |-> MaskIP(s.dotted, CIDRMask(s.ones)), Mask |-> CIDRMask(s.ones)]]
    ELSE [ok |-> FALSE, net |-> NoNet]

----------------------------------------------------------------------------
(* pkg/ipam: the allocator *)

\* An allocator that is not open (New returned nil).
Closed == [open |-> FALSE, Subnet |-> NoNet, Gateway |-> NoIP, Allocations |-> <<>>]

\* The record file: absent, a JSON object from workload identifier to address
\* string, or content that is not such a JSON object.
NoFile == [state |-> "absent", data |-> <<>>]

CorruptFile == [state |-> "corrupt", data |-> <<>>]

JSONFile(d) == [state |-> "json", data |-> d]

\* How a write of the record file can end: written, failed before the file was
\* touched, or failed after os.WriteFile truncated it.
WriteOutcomes == IF diskFaults THEN {"ok", "openfail", "truncated"} ELSE {"ok"}

RECURSIVE incLoop(_, _)
incLoop(ip, j) ==
    IF j < 1 THEN ip
    ELSE LET v == (ip[j] + 1) % ByteMod
             ip2 == [ip EXCEPT ![j] = v]
         IN  IF v > 0 THEN ip2 ELSE incLoop(ip2, j - 1)

\* Mutant: the address is not advanced.
inc_none(ip) == ip

\* inc: add one to the address, carrying from the last byte, wrapping at the top.
inc(ip) == incLoop(ip, Len(ip))

\* Mutant: the gateway is not skipped.
skipGateway_never(ip, gw) == ip

\* The gateway skip of findAvailableIP: one more inc when the address is the gateway.
skipGateway(ip, gw) == IF IPEqual(ip, gw) THEN inc(ip) ELSE ip

\* Whether some record of the mapping holds the address.
allocated(allocs, ip) == \E id \in DOMAIN allocs : IPEqual(ip, allocs[id])

\* The loop of findAvailableIP, from the address it is entered with.
RECURSIVE scanLoop(_, _)
scanLoop(i, ip) ==
    IF ~Contains(i.Subnet, ip) THEN [err |-> "SubnetExhausted", ip |-> NoIP]
    ELSE IF ~allocated(i.Allocations, ip) THEN [err |-> "", ip |-> ip]
    ELSE scanLoop(i, skipGateway(inc(ip), i.Gateway))

\* Mutant: the scan starts one address too high.
findAvailableIP_fromTwo(i) == scanLoop(i, skipGateway(inc(inc(i.Subnet.IP)), i.Gateway))

\* findAvailableIP: scan from network address + 1, skipping the gateway.
findAvailableIP(i) == scanLoop(i, skipGateway(inc(i.Subnet.IP), i.Gateway))

\* Mutant: the save keeps the records the file holds for other identifiers.
saveAllocations_merge(allocs, f, outcome) ==
    LET old == [id \in DOMAIN f.data \ DOMAIN allocs |-> f.data[id]]
    IN  [err |-> "",
         file |-> JSONFile([id \in DOMAIN allocs |-> IPString(allocs[id])] @@ old)]

\* saveAllocations: the mapping as strings, written over the record file.
saveAllocations(allocs, f, outcome) ==
    IF outcome = "ok"
    THEN [err |-> "", file |-> JSONFile([id \in DOMAIN allocs |-> IPString(allocs[id])])]
    ELSE IF outcome = "openfail"
    THEN [err |-> "PersistenceError", file |-> f]
    ELSE [err |-> "PersistenceError", file |-> CorruptFile]

\* Mutant: a record file that does not parse is taken as empty, and entries
\* that are not addresses are left out.
loadAllocations_lenient(f) ==
    IF f.state # "json" THEN [err |-> "", Allocations |-> <<>>]
    ELSE [err |-> "",
          Allocations |-> [id \in {k \in DOMAIN f.data : ParseIP(f.data[k]) # NoIP}
                              |-> ParseIP(f.data[id])]]

\* loadAllocations: the record file parsed into the (empty) mapping of a new allocator.
loadAllocations(f) ==
    IF f.state = "absent" THEN [err |-> "", Allocations |-> <<>>]
    ELSE IF f.state = "corrupt" THEN [err |-> "CorruptState", Allocations |-> <<>>]
    ELSE IF \E id \in DOMAIN f.data : ParseIP(f.data[id]) = NoIP
    THEN [err |-> "CorruptState", Allocations |-> <<>>]
    ELSE [err |-> "", Allocations |-> [id \in DOMAIN f.data |-> ParseIP(f.data[id])]]

\* Mutant: the data directory is created and the record read before the
\* gateway is parsed.
New_gatewayLast(config, f) ==
    LET sub == ParseCIDR(config.Subnet)
        gw == ParseIP(config.Gateway)
        ld == loadAllocations(f)
    IN  IF ~sub.ok THEN [err |-> "InvalidSubnet", ipam |-> Closed, mkdir |-> FALSE]
        ELSE IF ld.err # "" THEN [err |-> ld.err, ipam |-> Closed, mkdir |-> TRUE]
        ELSE IF gw = NoIP THEN [err |-> "InvalidGateway", ipam |-> Closed, mkdir |-> TRUE]
        ELSE [err |-> "", mkdir |-> TRUE,
              ipam |-> [open |-> TRUE, Subnet |-> sub.net, Gateway |-> gw,
                        Allocations |-> ld.Allocations]]

\* New: parse the subnet and the gateway, create the data directory, load the record.
New(config, f) ==
    LET sub == ParseCIDR(config.Subnet)
        gw == ParseIP(config.Gateway)
        ld == loadAllocations(f)
    IN  IF ~sub.ok THEN [err |-> "InvalidSubnet", ipam |-> Closed, mkdir |-> FALSE]
        ELSE IF gw = NoIP THEN [err |-> "InvalidGateway", ipam |-> Closed, mkdir |-> FALSE]
        ELSE IF ld.err # "" THEN [err |-> ld.err, ipam |-> Closed, mkdir |-> TRUE]
        ELSE [err |-> "", mkdir |-> TRUE,
              ipam |-> [open |-> TRUE, Subnet |-> sub.net, Gateway |-> gw,
                        Allocations |-> ld.Allocations]]

\* Mutant: no look-up of an existing record before the scan.
Allocate_noLookup(i, id, f, outcome) ==
    LET found == findAvailableIP(i)
        i2 == [i EXCEPT !.Allocations =
                  (id :> found.ip) @@ [k \in DOMAIN i.Allocations \ {id} |-> i.Allocations[k]]]
        sv == saveAllocations(i2.Allocations, f, outcome)
    IN  IF found.err # "" THEN [err |-> found.err, ip |-> NoIP, ipam |-> i, file |-> f]
        ELSE IF sv.err # "" THEN [err |-> sv.err, ip |-> NoIP, ipam |-> i2, file |-> sv.file]
        ELSE [err |-> "", ip |-> found.ip, ipam |-> i2, file |-> sv.file]

\* Allocate: the recorded address if there is one, else the first free one,
\* recorded in memory and then saved.
Allocate(i, id, f, outcome) ==
    IF id \in DOMAIN i.Allocations
    THEN [err |-> "", ip |-> i.Allocations[id], ipam |-> i, file |-> f]
    ELSE LET found == findAvailableIP(i)
             i2 == [i EXCEPT !.Allocations = (id :> found.ip) @@ i.Allocations]
             sv == saveAllocations(i2.Allocations, f, outcome)
         IN  IF found.err # "" THEN [err |-> found.err, ip |-> NoIP, ipam |-> i, file |-> f]
             ELSE IF sv.err # "" THEN [err |-> sv.err, ip |-> NoIP, ipam |-> i2, file |-> sv.file]
             ELSE [err |-> "", ip |-> found.ip, ipam |-> i2, file |-> sv.file]

\* Mutant: the record is deleted in memory and the mapping is not saved.
Release_noSave(i, id, f, outcome) ==
    [err |-> "", file |-> f,
     ipam |-> [i EXCEPT !.Allocations =
                  [k \in DOMAIN i.Allocations \ {id} |-> i.Allocations[k]]]]

\* Mutant: the mapping is saved even when there was no record to delete.
Release_alwaysSave(i, id, f, outcome) ==
    LET i2 == [i EXCEPT !.Allocations =
                  [k \in DOMAIN i.Allocations \ {id} |-> i.Allocations[k]]]
        sv == saveAllocations(i2.Allocations, f, outcome)
    IN  [err |-> sv.err, ipam |-> i2, file |-> sv.file]

\* Release: nothing if there is no record, else the record deleted and the mapping saved.
Release(i, id, f, outcome) ==
    IF id \notin DOMAIN i.Allocations
    THEN [err |-> "", ipam |-> i, file |-> f]
    ELSE LET i2 == [i EXCEPT !.Allocations =
                        [k \in DOMAIN i.Allocations \ {id} |-> i.Allocations[k]]]
             sv == saveAllocations(i2.Allocations, f, outcome)
         IN  [err |-> sv.err, ipam |-> i2, file |-> sv.file]

----------------------------------------------------------------------------
(* The configurations the runs draw from *)

Dotted(a, b, c, d) == [dotted |-> <<a, b, c, d>>]

CIDR(a, b, c, d, ones) == [dotted |-> <<a, b, c, d>>, ones |-> ones]

NetConf(host, vni, subnet, gateway) ==
    [HostInterface |-> host, VxlanID |-> vni, MTU |-> 0,
     Subnet |-> subnet, Gateway |-> gateway]

\* Allocator configurations: the test's /24, small subnets whose every address
\* is reached (gateway first, last, on the broadcast address, outside the
\* subnet; host bits set in the CIDR; the top of the address space), and
\* strings that do not parse.
IPAMConfs ==
    { NetConf("eth0", 10, CIDR(10, 244, 0, 0, 24), Dotted(10, 244, 0, 1)),
      NetConf("eth0", 10, CIDR(10, 244, 0, 0, 30), Dotted(10, 244, 0, 1)),
      NetConf("eth0", 10, CIDR(10, 244, 0, 0, 30), Dotted(10, 244, 0, 2)),
      NetConf("eth0", 10, CIDR(10, 244, 0, 0, 30), Dotted(10, 244, 0, 3)),
      NetConf("eth0", 10, CIDR(10, 244, 0, 5, 30), Dotted(10, 244, 0, 5)),
      NetConf("eth0", 10, CIDR(10, 244, 0, 0, 29), Dotted(10, 244, 1, 1)),
      NetConf("eth0", 10, CIDR(255, 255, 255, 252, 30), Dotted(255, 255, 255, 253)),
      NetConf("eth0", 10, CIDR(10, 244, 0, 0, 30), Text("bogus")),
      NetConf("eth0", 10, Text(""), Dotted(10, 244, 0, 1)) }

\* The configurations run on a disk whose writes may fail: small subnets, so
\* that every mix of held records, failed saves and restarts is reached.
FaultyConfs ==
    { NetConf("eth0", 10, CIDR(10, 244, 0, 0, 30), Dotted(10, 244, 0, 1)),
      NetConf("eth0", 10, CIDR(10, 244, 0, 0, 30), Dotted(10, 244, 0, 3)) }

----------------------------------------------------------------------------
(* The allocator's calls, on one data directory *)

NoCall == [op |-> "none", id |-> 0, err |-> "", ip |-> NoIP, pre |-> Closed, prefile |-> NoFile]

\* ipam.New(config): a (re)start of the allocator against the data directory.
CallNew ==
    LET r == New(conf, file)
    IN  /\ ipam' = r.ipam
        /\ dirExists' = (dirExists \/ r.mkdir)
        /\ last' = [op |-> "New", id |-> 0, err |-> r.err, ip |-> NoIP,
                    pre |-> ipam, prefile |-> file]
        /\ UNCHANGED <<conf, file, diskFaults, links, ipForward, lastCmd, lastVx, procs, mutex>>

\* ipamInstance.Allocate(containerID) on the open allocator.
CallAllocate(id) ==
    /\ ipam.open
    /\ \E outcome \in WriteOutcomes :
          LET r == Allocate(ipam, id, file, outcome)
          IN  /\ ipam' = r.ipam
              /\ file' = r.file
              /\ last' = [op |-> "Allocate", id |-> id, err |-> r.err, ip |-> r.ip,
                          pre |-> ipam, prefile |-> file]
    /\ UNCHANGED <<conf, dirExists, diskFaults, links, ipForward, lastCmd, lastVx, procs, mutex>>

\* ipamInstance.Release(containerID) on the open allocator.
CallRelease(id) ==
    /\ ipam.open
    /\ \E outcome \in WriteOutcomes :
          LET r == Release(ipam, id, file, outcome)
          IN  /\ ipam' = r.ipam
              /\ file' = r.file
              /\ last' = [op |-> "Release", id |-> id, err |-> r.err, ip |-> NoIP,
                          pre |-> ipam, prefile |-> file]
    /\ UNCHANGED <<conf, dirExists, diskFaults, links, ipForward, lastCmd, lastVx, procs, mutex>>

NoLinks == [ns \in {"host", "ns1"} |-> <<>>]

\* No call of pkg/vxlan made yet.
NoVxCall == [op |-> "none", id |-> 0, err |-> "", pre |-> NoLinks]

\* A caller that is in no call: the call it is in (op, id), where it is in it
\* (pc), the mapping of its own allocator instance (mem), what the call has
\* found and returned (ip, err), and the file as its New read it (seen).
Idle ==
    [pc |-> "idle", op |-> "", id |-> 0, mem |-> <<>>, ip |-> NoIP, err |-> "",
     seen |-> NoFile]

NoProcs == [p \in ProcIDs |-> Idle]

NoCmd ==
    [cmd |-> "none", id |-> 0, netns |-> "", ifname |-> "",
     err |-> "", step |-> "", ip |-> NoIP, hostVeth |-> "",
     result |-> [Interfaces |-> <<>>, Address |-> NoNet, Gateway |-> NoIP]]

InitIPAM ==
    /\ conf \in IPAMConfs
    /\ file = NoFile
    /\ dirExists = FALSE
    /\ diskFaults = FALSE
    /\ ipam = Closed
    /\ last = NoCall
    /\ links = NoLinks
    /\ ipForward = FALSE
    /\ lastCmd = NoCmd
    /\ lastVx = NoVxCall
    /\ procs = NoProcs
    /\ mutex = 0

\* The same, on a disk whose writes may fail.
InitIPAMFaulty ==
    /\ conf \in FaultyConfs
    /\ file = NoFile
    /\ dirExists = FALSE
    /\ diskFaults = TRUE
    /\ ipam = Closed
    /\ last = NoCall
    /\ links = NoLinks
    /\ ipForward = FALSE
    /\ lastCmd = NoCmd
    /\ lastVx = NoVxCall
    /\ procs = NoProcs
    /\ mutex = 0

NextIPAM ==
    \/ CallNew
    \/ \E id \in WorkloadIDs : CallAllocate(id)
    \/ \E id \in WorkloadIDs : CallRelease(id)

\* One process using one allocator at a time on a data directory of its own.
SpecIPAM == InitIPAM /\ [][NextIPAM]_vars

SpecIPAMFaulty == InitIPAMFaulty /\ [][NextIPAM]_vars

----------------------------------------------------------------------------
(* The kernel: links by name in each network namespace *)

\* The host's namespace and one container namespace.  A namespace path is the
\* name of the namespace it opens; "" is the path not given.
HostNS == "host"

Namespaces == {"host", "ns1"}

NetnsPaths == Namespaces \cup {""}

\* The interface name a request asks for.
IfNames == {"net1"}

\* The names ip.RandomVethName draws from.
VethNames == {"vethA"}

NoPeer == [ns |-> "", name |-> ""]

\* A link: its kind, whether it is administratively up, its IPv4 addresses,
\* its routes (by destination; "default" is the route with no destination),
\* the link it is enslaved to, its veth peer, its VXLAN identifier.
Link(kind, up, addrs, routes) ==
    [kind |-> kind, up |-> up, addrs |-> addrs, routes |-> routes,
     master |-> "", peer |-> NoPeer, vni |-> 0]

HasLink(L, ns, name) == name \in DOMAIN L[ns]

setLink(L, ns, name, l) == [L EXCEPT ![ns] = (name :> l) @@ L[ns]]

\* A link unregistered: gone from its namespace, its slaves released.
removeLink(L, ns, name) ==
    [L EXCEPT ![ns] =
        [n \in DOMAIN L[ns] \ {name} |->
            IF L[ns][n].master = name THEN [L[ns][n] EXCEPT !.master = ""] ELSE L[ns][n]]]

\* netlink.LinkDel: the link is deleted, and with a veth its peer.
LinkDel(L, ns, name) ==
    LET l == L[ns][name]
        L1 == removeLink(L, ns, name)
    IN  IF l.kind = "veth" /\ l.peer.ns \in Namespaces /\ HasLink(L1, l.peer.ns, l.peer.name)
        THEN removeLink(L1, l.peer.ns, l.peer.name)
        ELSE L1

\* The kernel operations an invocation may see rejected for the kernel's own
\* reasons ("none": none is).  Deleting a stale VXLAN device and setting the
\* new one up are taken to succeed.
KernelOps ==
    {"sysctl", "vxlan.LinkAdd", "vxlan.AddrAdd",
     "SetupVeth", "AddrAdd", "LinkSetUp", "RouteAdd", "LinkSetMaster", "LinkDel"}

----------------------------------------------------------------------------
(* pkg/vxlan *)

DefaultVxlanVNI == 10

DefaultMTU == 1500

\* fmt.Sprintf("vxlan%d", id), for the identifiers the configurations use.
vxlanName(id) ==
    IF id = 0 THEN "vxlan0" ELSE IF id = 10 THEN "vxlan10" ELSE "vxlanN"

\* No result printed: current.Result with no interfaces and no address.
NoResult == [Interfaces |-> <<>>, Address |-> NoNet, Gateway |-> NoIP]

\* The state an invocation works on and what it has come to: the kernel's
\* links, ip_forward, the record file, the data directory; the error and the
\* step that raised it; the address allocated, the host veth's name, the
\* result printed.
Machine(L, fwd, f, dir) ==
    [links |-> L, fwd |-> fwd, file |-> f, dir |-> dir,
     err |-> "", step |-> "", ip |-> NoIP, hostVeth |-> "", result |-> NoResult]

fail(m, step, err) == [m EXCEPT !.err = err, !.step = step]

\* Mutant: a device that already has the name is kept as it is.
SetupVxlan_reuse(m, c, reject) ==
    LET name == vxlanName(c.VxlanID)
        L0 == m.links
        dev == [Link("vxlan", TRUE, {}, {}) EXCEPT !.vni = c.VxlanID]
    IN  IF ~HasLink(L0, HostNS, c.HostInterface)
        THEN fail(m, "SetupVxlan", "InterfaceNotFound")
        ELSE IF L0[HostNS][c.HostInterface].addrs = {}
        THEN fail(m, "SetupVxlan", "NoHostAddress")
        ELSE IF HasLink(L0, HostNS, name) THEN m
        ELSE IF reject = "vxlan.LinkAdd"
        THEN fail(m, "SetupVxlan", "TunnelCreateFailed")
        ELSE [m EXCEPT !.links = setLink(L0, HostNS, name, dev)]

\* Mutant: a device that is absent is an error.
CleanupVxlan_strict(L, id, reject) ==
    IF ~HasLink(L, HostNS, vxlanName(id)) THEN [err |-> "TunnelDeleteFailed", links |-> L]
    ELSE IF reject = "LinkDel" THEN [err |-> "TunnelDeleteFailed", links |-> L]
    ELSE [err |-> "", links |-> LinkDel(L, HostNS, vxlanName(id))]

\* SetupVxlan: the host interface and its first IPv4 address, then the device
\* of the deterministic name deleted if it exists, created, and set up.
SetupVxlan(m, c, reject) ==
    LET name == vxlanName(c.VxlanID)
        L0 == m.links
        L1 == IF HasLink(L0, HostNS, name) THEN LinkDel(L0, HostNS, name) ELSE L0
        dev == [Link("vxlan", FALSE, {}, {}) EXCEPT !.vni = c.VxlanID]
        L2 == setLink(L1, HostNS, name, [dev EXCEPT !.up = TRUE])
    IN  IF ~HasLink(L0, HostNS, c.HostInterface)
        THEN fail(m, "SetupVxlan", "InterfaceNotFound")
        ELSE IF L0[HostNS][c.HostInterface].addrs = {}
        THEN fail(m, "SetupVxlan", "NoHostAddress")
        ELSE IF reject = "vxlan.LinkAdd"
        THEN fail([m EXCEPT !.links = L1], "SetupVxlan", "TunnelCreateFailed")
        ELSE [m EXCEPT !.links = L2]

\* ConfigureVxlanNetwork: the subnet added as an address of the device.
ConfigureVxlanNetwork(m, c, subnet, reject) ==
    LET name == vxlanName(c.VxlanID)
        dev == m.links[HostNS][name]
    IN  IF reject = "vxlan.AddrAdd"
        THEN fail(m, "ConfigureVxlanNetwork", "AddressConfigFailed")
        ELSE [m EXCEPT !.links =
                 setLink(m.links, HostNS, name, [dev EXCEPT !.addrs = @ \cup {subnet}])]

\* CleanupVxlan: the device of the identifier deleted if it exists.
CleanupVxlan(L, id, reject) ==
    IF ~HasLink(L, HostNS, vxlanName(id)) THEN [err |-> "", links |-> L]
    ELSE IF reject = "LinkDel" THEN [err |-> "TunnelDeleteFailed", links |-> L]
    ELSE [err |-> "", links |-> LinkDel(L, HostNS, vxlanName(id))]

----------------------------------------------------------------------------
(* main: the lifecycle commands *)

\* The defaults cmdAdd sets for fields the configuration leaves out.
addDefaults(c) ==
    [c EXCEPT !.VxlanID = IF @ = 0 THEN DefaultVxlanVNI ELSE @,
              !.MTU = IF @ = 0 THEN DefaultMTU ELSE @]

\* cmdAdd's check of the required fields.
validate(m, c) ==
    IF c.HostInterface = "" \/ c.Subnet = Text("") \/ c.Gateway = Text("")
    THEN fail(m, "validate", "InvalidConfig")
    ELSE m

\* sysctl.Sysctl("net.ipv4.ip_forward", "1").
enableForwarding(m, reject) ==
    IF reject = "sysctl" THEN fail(m, "sysctl", "SysctlFailed") ELSE [m EXCEPT !.fwd = TRUE]

\* ipam.New on the configuration's subnet, gateway and data directory, then
\* Allocate for the container.
allocateIP(m, c, id, outcome) ==
    LET n == New(c, m.file)
        a == Allocate(n.ipam, id, m.file, outcome)
        m1 == [m EXCEPT !.dir = @ \/ n.mkdir]
    IN  IF n.err # "" THEN fail(m1, "ipam.New", n.err)
        ELSE IF a.err # "" THEN fail([m1 EXCEPT !.file = a.file], "Allocate", a.err)
        ELSE [m1 EXCEPT !.file = a.file, !.ip = a.ip]

\* Mutant: a failure to create the veth pair releases the workload's record.
SetupVeth_release(m, args, peer, reject) ==
    LET L0 == m.links
        a == [Link("veth", FALSE, {}, {}) EXCEPT !.peer = [ns |-> args.Netns, name |-> peer]]
        b == [Link("veth", TRUE, {}, {}) EXCEPT !.peer = [ns |-> HostNS, name |-> args.IfName]]
        L1 == setLink(setLink(L0, HostNS, args.IfName, a), args.Netns, peer, b)
        released == [m EXCEPT !.file =
                        JSONFile([k \in DOMAIN m.file.data \ {args.ContainerID} |->
                                     m.file.data[k]])]
    IN  IF HasLink(L0, HostNS, args.IfName) \/ HasLink(L0, args.Netns, peer)
        THEN fail(released, "SetupVeth", "VethExists")
        ELSE IF reject = "SetupVeth" THEN fail(released, "SetupVeth", "VethCreateFailed")
        ELSE [m EXCEPT !.links = L1, !.hostVeth = peer]

\* ip.SetupVeth(args.IfName, mtu, "", netns), called in the host's namespace:
\* the library creates the link named args.IfName in the namespace it is
\* called in and the peer, under a random name, in the namespace it is given,
\* sets the peer up, and returns the peer as the host veth.
SetupVeth(m, args, peer, reject) ==
    LET L0 == m.links
        a == [Link("veth", FALSE, {}, {}) EXCEPT !.peer = [ns |-> args.Netns, name |-> peer]]
        b == [Link("veth", TRUE, {}, {}) EXCEPT !.peer = [ns |-> HostNS, name |-> args.IfName]]
        L1 == setLink(setLink(L0, HostNS, args.IfName, a), args.Netns, peer, b)
    IN  IF HasLink(L0, HostNS, args.IfName) \/ HasLink(L0, args.Netns, peer)
        THEN fail(m, "SetupVeth", "VethExists")
        ELSE IF reject = "SetupVeth" THEN fail(m, "SetupVeth", "VethCreateFailed")
        ELSE [m EXCEPT !.links = L1, !.hostVeth = peer]

\* The function cmdAdd runs inside args.Netns: the link named args.IfName
\* gets the allocated address with the subnet's mask, is set up, and gets the
\* default route via the gateway.
configureNetns(m, args, c, subnet, reject) ==
    LET ns == args.Netns
        l0 == m.links[ns][args.IfName]
        addr == [IP |-> To4(m.ip), Mask |-> subnet.Mask]
        l1 == [l0 EXCEPT !.addrs = @ \cup {addr}]
        l2 == [l1 EXCEPT !.up = TRUE]
        l3 == [l2 EXCEPT !.routes = @ \cup {"default"}]
        with(l) == [m EXCEPT !.links = setLink(m.links, ns, args.IfName, l)]
    IN  IF ~HasLink(m.links, ns, args.IfName) THEN fail(m, "LinkByName", "LinkNotFound")
        ELSE IF addr \in l0.addrs \/ reject = "AddrAdd"
        THEN fail(m, "AddrAdd", "AddressConfigFailed")
        ELSE IF reject = "LinkSetUp" THEN fail(with(l1), "LinkSetUp", "LinkSetUpFailed")
        ELSE IF ParseIP(c.Gateway) = NoIP THEN fail(with(l2), "ParseIP", "InvalidGateway")
        ELSE IF (\E n \in DOMAIN m.links[ns] : "default" \in m.links[ns][n].routes)
                \/ reject = "RouteAdd"
        THEN fail(with(l2), "RouteAdd", "RouteAddFailed")
        ELSE with(l3)

\* The host veth looked up by name in the host's namespace and enslaved to
\* the VXLAN device.
joinBridge(m, c, reject) ==
    LET l == m.links[HostNS][m.hostVeth]
    IN  IF ~HasLink(m.links, HostNS, m.hostVeth)
        THEN fail(m, "LinkByName(hostVeth)", "LinkNotFound")
        ELSE IF reject = "LinkSetMaster" THEN fail(m, "LinkSetMaster", "BridgeJoinFailed")
        ELSE [m EXCEPT !.links =
                 setLink(m.links, HostNS, m.hostVeth,
                         [l EXCEPT !.master = vxlanName(c.VxlanID)])]

\* Mutant: the result reports the subnet's address, not the container's.
emitResult_subnetIP(m, args, c, subnet) ==
    [m EXCEPT !.result =
        [Interfaces |-> << [Name |-> args.IfName, Sandbox |-> args.Netns],
                           [Name |-> m.hostVeth, Sandbox |-> ""],
                           [Name |-> vxlanName(c.VxlanID), Sandbox |-> ""] >>,
         Address |-> [IP |-> subnet.IP, Mask |-> subnet.Mask],
         Gateway |-> ParseIP(c.Gateway)]]

\* The current.Result cmdAdd prints: the interface named args.IfName with
\* args.Netns as its sandbox, the host veth, the VXLAN device; the allocated
\* address with the subnet's mask, and the gateway of the configuration.
emitResult(m, args, c, subnet) ==
    [m EXCEPT !.result =
        [Interfaces |-> << [Name |-> args.IfName, Sandbox |-> args.Netns],
                           [Name |-> m.hostVeth, Sandbox |-> ""],
                           [Name |-> vxlanName(c.VxlanID), Sandbox |-> ""] >>,
         Address |-> [IP |-> m.ip, Mask |-> subnet.Mask],
         Gateway |-> ParseIP(c.Gateway)]]

\* Mutant: the allocation is made even when an earlier step has failed.
cmdAdd_continue(m, args, c0, reject, peer, outcome) ==
    LET c == addDefaults(c0)
        sub == ParseCIDR(c.Subnet)
        s1 == {validate(m, c)}
        s2 == {IF x.err # "" THEN x ELSE enableForwarding(x, reject) : x \in s1}
        s3 == {IF x.err # "" THEN x ELSE SetupVxlan(x, c, reject) : x \in s2}
        s4 == {IF x.err # "" THEN x
               ELSE IF ~sub.ok THEN fail(x, "ParseCIDR", "InvalidSubnet")
               ELSE ConfigureVxlanNetwork(x, c, sub.net, reject) : x \in s3}
        s5 == {IF x.err # ""
               THEN [x EXCEPT !.file = allocateIP(x, c, args.ContainerID, outcome).file]
               ELSE allocateIP(x, c, args.ContainerID, outcome) : x \in s4}
        s6 == {IF x.err # "" THEN x
               ELSE IF args.Netns \notin Namespaces THEN fail(x, "GetNS", "NetnsOpenFailed")
               ELSE SetupVeth(x, args, peer, reject) : x \in s5}
        s7 == {IF x.err # "" THEN x
               ELSE configureNetns(x, args, c, sub.net, reject) : x \in s6}
        s8 == {IF x.err # "" THEN x ELSE joinBridge(x, c, reject) : x \in s7}
        s9 == {IF x.err # "" THEN x ELSE emitResult(x, args, c, sub.net) : x \in s8}
    IN  CHOOSE r \in s9 : TRUE

\* cmdAdd, each step run on what the steps before it left, and only if none of
\* them failed ("if err != nil { return ... }"); s1 .. s9 hold the one state
\* each step leaves.
cmdAdd(m, args, c0, reject, peer, outcome) ==
    LET c == addDefaults(c0)
        sub == ParseCIDR(c.Subnet)
        s1 == {validate(m, c)}
        s2 == {IF x.err # "" THEN x ELSE enableForwarding(x, reject) : x \in s1}
        s3 == {IF x.err # "" THEN x ELSE SetupVxlan(x, c, reject) : x \in s2}
        s4 == {IF x.err # "" THEN x
               ELSE IF ~sub.ok THEN fail(x, "ParseCIDR", "InvalidSubnet")
               ELSE ConfigureVxlanNetwork(x, c, sub.net, reject) : x \in s3}
        s5 == {IF x.err # "" THEN x
               ELSE allocateIP(x, c, args.ContainerID, outcome) : x \in s4}
        s6 == {IF x.err # "" THEN x
               ELSE IF args.Netns \notin Namespaces THEN fail(x, "GetNS", "NetnsOpenFailed")
               ELSE SetupVeth(x, args, peer, reject) : x \in s5}
        s7 == {IF x.err # "" THEN x
               ELSE configureNetns(x, args, c, sub.net, reject) : x \in s6}
        s8 == {IF x.err # "" THEN x ELSE joinBridge(x, c, reject) : x \in s7}
        s9 == {IF x.err # "" THEN x ELSE emitResult(x, args, c, sub.net) : x \in s8}
    IN  CHOOSE r \in s9 : TRUE

\* ip.DelLinkByNameAddr(ifName), in the namespace it is called in: not found
\* is an error (ip.ErrLinkNotFound); a physical device cannot be deleted.
DelLinkByNameAddr(m, ns, ifName, reject) ==
    IF ~HasLink(m.links, ns, ifName) THEN fail(m, "DelLinkByNameAddr", "ErrLinkNotFound")
    ELSE IF m.links[ns][ifName].kind = "physical" \/ reject = "LinkDel"
    THEN fail(m, "DelLinkByNameAddr", "LinkDelFailed")
    ELSE [m EXCEPT !.links = LinkDel(m.links, ns, ifName)]

\* cmdDel: New, Release, then, if a namespace path was given, the link
\* named args.IfName deleted in the namespace the plugin runs in (the host's).
cmdDel(m, args, c, reject, outcome) ==
    LET n == New(c, m.file)
        r == Release(n.ipam, args.ContainerID, m.file, outcome)
        m1 == [m EXCEPT !.dir = @ \/ n.mkdir]
        m2 == [m1 EXCEPT !.file = r.file]
    IN  IF n.err # "" THEN fail(m1, "ipam.New", n.err)
        ELSE IF r.err # "" THEN fail(m2, "Release", r.err)
        ELSE IF args.Netns # "" THEN DelLinkByNameAddr(m2, HostNS, args.IfName, reject)
        ELSE m2

\* Mutant: a CHECK that opens the allocator as ADD and DEL do.
cmdCheck_openIPAM(m, args, c) == [m EXCEPT !.dir = @ \/ New(c, m.file).mkdir]

\* Mutant: a CHECK that does not look for the default route.
cmdCheck_noRoute(m, args, c) ==
    LET ns == args.Netns
        l == m.links[ns][args.IfName]
    IN  IF ~HasLink(m.links, HostNS, vxlanName(c.VxlanID))
        THEN fail(m, "vxlan", "VerifyFailed")
        ELSE IF ns \notin Namespaces THEN fail(m, "WithNetNSPath", "VerifyFailed")
        ELSE IF ~HasLink(m.links, ns, args.IfName) THEN fail(m, "LinkByName", "VerifyFailed")
        ELSE IF ~l.up THEN fail(m, "up", "VerifyFailed")
        ELSE IF l.addrs = {} THEN fail(m, "addrs", "VerifyFailed")
        ELSE m

\* cmdCheck: the VXLAN device by name in the host's namespace, then inside
\* args.Netns the link, its up flag, its addresses, its default route.
cmdCheck(m, args, c) ==
    LET ns == args.Netns
        l == m.links[ns][args.IfName]
    IN  IF ~HasLink(m.links, HostNS, vxlanName(c.VxlanID))
        THEN fail(m, "vxlan", "VerifyFailed")
        ELSE IF ns \notin Namespaces THEN fail(m, "WithNetNSPath", "VerifyFailed")
        ELSE IF ~HasLink(m.links, ns, args.IfName) THEN fail(m, "LinkByName", "VerifyFailed")
        ELSE IF ~l.up THEN fail(m, "up", "VerifyFailed")
        ELSE IF l.addrs = {} THEN fail(m, "addrs", "VerifyFailed")
        ELSE IF "default" \notin l.routes THEN fail(m, "routes", "VerifyFailed")
        ELSE m

----------------------------------------------------------------------------
(* The plugin's invocations, one process each, one after the other *)

Args == [ContainerID : ContainerIDs, Netns : NetnsPaths, IfName : IfNames]

Outcome(cmd, args, m) ==
    [cmd |-> cmd, id |-> args.ContainerID, netns |-> args.Netns, ifname |-> args.IfName,
     err |-> m.err, step |-> m.step, ip |-> m.ip, hostVeth |-> m.hostVeth,
     result |-> m.result]

Add(args) ==
    \E reject \in KernelOps \cup {"none"}, peer \in VethNames, outcome \in WriteOutcomes :
        \E m \in {cmdAdd(Machine(links, ipForward, file, dirExists),
                        args, conf, reject, peer, outcome)} :
            /\ links' = m.links
            /\ ipForward' = m.fwd
            /\ file' = m.file
            /\ dirExists' = m.dir
            /\ lastCmd' = Outcome("ADD", args, m)
            /\ UNCHANGED <<conf, diskFaults, ipam, last, lastVx, procs, mutex>>

Del(args) ==
    \E reject \in {"LinkDel", "none"}, outcome \in WriteOutcomes :
        \E m \in {cmdDel(Machine(links, ipForward, file, dirExists),
                        args, conf, reject, outcome)} :
            /\ links' = m.links
            /\ ipForward' = m.fwd
            /\ file' = m.file
            /\ dirExists' = m.dir
            /\ lastCmd' = Outcome("DEL", args, m)
            /\ UNCHANGED <<conf, diskFaults, ipam, last, lastVx, procs, mutex>>

Check(args) ==
    \E m \in {cmdCheck(Machine(links, ipForward, file, dirExists), args, conf)} :
        /\ links' = m.links
        /\ ipForward' = m.fwd
        /\ file' = m.file
        /\ dirExists' = m.dir
        /\ lastCmd' = Outcome("CHECK", args, m)
        /\ UNCHANGED <<conf, diskFaults, ipam, last, lastVx, procs, mutex>>

\* The configurations the runtime hands the plugin: complete ones (VXLAN
\* identifier given, or left out), and ones with a field missing, naming an
\* interface without an address or no interface, or not parsing.
Sub30 == CIDR(10, 244, 0, 0, 30)

Gw1 == Dotted(10, 244, 0, 1)

NetConfs ==
    { NetConf("eth0", 10, Sub30, Gw1),
      NetConf("eth0", 0, Sub30, Gw1),
      NetConf("", 10, Sub30, Gw1),
      NetConf("eth1", 10, Sub30, Gw1),
      NetConf("eth9", 10, Sub30, Gw1),
      NetConf("eth0", 10, Text("bogus"), Gw1),
      NetConf("eth0", 10, Text(""), Gw1),
      NetConf("eth0", 10, Sub30, Text("bogus")),
      NetConf("eth0", 10, Sub30, Text("")) }

HostAddr == [IP |-> <<192, 168, 1, 10>>, Mask |-> CIDRMask(24)]

\* What the host may hold beforehand under the name a request asks for:
\* nothing, or a link that is up and has no address.
PreLinks == {<<>>, "net1" :> Link("dummy", TRUE, {}, {})}

\* The host: eth0 with an address, eth1 without.
HostLinks ==
    ("eth0" :> Link("physical", TRUE, {HostAddr}, {})) @@
    ("eth1" :> Link("physical", TRUE, {}, {}))

Init ==
    /\ conf \in NetConfs
    /\ file = NoFile
    /\ dirExists = FALSE
    /\ diskFaults = FALSE
    /\ ipam = Closed
    /\ last = NoCall
    /\ \E pre \in PreLinks :
          /\ pre # <<>> => conf = NetConf("eth0", 10, Sub30, Gw1)
          /\ links = [ns \in Namespaces |-> IF ns = HostNS THEN pre @@ HostLinks ELSE <<>>]
    /\ ipForward = FALSE
    /\ lastCmd = NoCmd
    /\ lastVx = NoVxCall
    /\ procs = NoProcs
    /\ mutex = 0

Next ==
    \E args \in Args :
        \/ Add(args)
        \/ Del(args)
        \/ Check(args)

Spec == Init /\ [][Next]_vars

----------------------------------------------------------------------------
(* Properties of the allocator *)

\* The subnet as the configuration states it: its size, and its addresses by
\* their offset from the network address (offset 0), up to the broadcast
\* address (offset SubnetSize - 1).
SubnetSize == Pow2(32 - conf.Subnet.ones)

HostBits(i) ==
    LET h == (32 - conf.Subnet.ones) - 8 * (4 - i)
    IN  IF h < 0 THEN 0 ELSE IF h > 8 THEN 8 ELSE h

NetworkIP ==
    [i \in 1..4 |-> (conf.Subnet.dotted[i] \div Pow2(HostBits(i))) * Pow2(HostBits(i))]

AddrAt(k) ==
    LET s4 == NetworkIP[4] + k
        s3 == NetworkIP[3] + (s4 \div ByteMod)
        s2 == NetworkIP[2] + (s3 \div ByteMod)
        s1 == NetworkIP[1] + (s2 \div ByteMod)
    IN  <<s1 % ByteMod, s2 % ByteMod, s3 % ByteMod, s4 % ByteMod>>

BroadcastOffset == SubnetSize - 1

GatewayIP == To4(ParseIP(conf.Gateway))

Held(allocs) == {To4(allocs[id]) : id \in DOMAIN allocs}

SameMapping(a, b) ==
    /\ DOMAIN a = DOMAIN b
    /\ \A id \in DOMAIN a : IPEqual(a[id], b[id])

\* The last call was an Allocate for a workload that held no record.
FreshAllocate == last.op = "Allocate" /\ last.id \notin DOMAIN last.pre.Allocations

\* C1: from an empty store, no two workloads that hold a record hold the same
\* address, and no address Allocate returns is the gateway.
C1_Uniqueness ==
    /\ \A a, b \in DOMAIN ipam.Allocations :
          a # b => ~IPEqual(ipam.Allocations[a], ipam.Allocations[b])
    /\ (last.op = "Allocate" /\ last.err = "") => ~IPEqual(last.ip, ipam.Gateway)

\* C1 witness: a second record was just added, and the address returned is the
\* one after the gateway (the scan stepped over the gateway).
C1_Witness ==
    /\ FreshAllocate /\ last.err = ""
    /\ Cardinality(DOMAIN ipam.Allocations) >= 2
    /\ \E k \in 1..(BroadcastOffset - 1) : AddrAt(k) = GatewayIP /\ AddrAt(k + 1) = last.ip

\* C2: Allocate for a workload that holds a record returns that address and
\* changes neither the in-memory mapping nor the record file.
C2_AllocateIdempotent ==
    (last.op = "Allocate" /\ last.id \in DOMAIN last.pre.Allocations) =>
        /\ last.err = ""
        /\ last.ip = last.pre.Allocations[last.id]
        /\ ipam = last.pre
        /\ file = last.prefile

\* C2 witness: a repeated Allocate while other workloads hold records, on an
\* allocator whose record file lags its memory (an earlier save failed).
C2_Witness ==
    /\ last.op = "Allocate" /\ last.id \in DOMAIN last.pre.Allocations
    /\ Cardinality(DOMAIN ipam.Allocations) >= 2
    /\ file.state = "json" /\ DOMAIN file.data # DOMAIN ipam.Allocations

\* The addresses of the subnet above the network address that are neither the
\* gateway nor held by a record.
FreeOffsets(allocs) ==
    {k \in 1..BroadcastOffset : AddrAt(k) # GatewayIP /\ AddrAt(k) \notin Held(allocs)}

Min(S) == CHOOSE n \in S : \A m \in S : n <= m

\* C3: Allocate for a workload without a record returns the lowest address of
\* the subnet above the network address that is not the gateway and not held,
\* and fails only when there is none.
C3_FirstFit ==
    FreshAllocate =>
        IF FreeOffsets(last.pre.Allocations) = {}
        THEN last.err = "SubnetExhausted"
        ELSE /\ last.err = ""
             /\ last.ip = AddrAt(Min(FreeOffsets(last.pre.Allocations)))
             /\ ipam.Allocations[last.id] = last.ip

\* C3 witness: the /24 scenario: with .3 held and .2 released, the next new
\* workload gets .2.
C3_Witness ==
    /\ FreshAllocate /\ last.err = ""
    /\ conf.Subnet = CIDR(10, 244, 0, 0, 24) /\ conf.Gateway = Dotted(10, 244, 0, 1)
    /\ Held(last.pre.Allocations) = {<<10, 244, 0, 3>>}
    /\ last.ip = <<10, 244, 0, 2>>

\* The usable non-gateway addresses: strictly between the network address and
\* the broadcast address, the gateway excluded.
UsableOffsets == {k \in 1..(BroadcastOffset - 1) : AddrAt(k) # GatewayIP}

\* C4 (as claimed): with fewer than N usable non-gateway addresses held, an
\* Allocate for a new workload succeeds; with N held it fails with
\* SubnetExhausted and changes nothing.
C4_Exhaustion ==
    FreshAllocate =>
        IF Cardinality(DOMAIN last.pre.Allocations) < Cardinality(UsableOffsets)
        THEN last.err = ""
        ELSE /\ last.err = "SubnetExhausted"
             /\ ipam = last.pre
             /\ file = last.prefile

\* C5: a new allocator opened on the data directory after successful calls
\* holds the same keys with equal addresses as the allocator that made them.
C5_RoundTrip ==
    (last.op = "New" /\ last.pre.open) =>
        /\ last.err = ""
        /\ SameMapping(ipam.Allocations, last.pre.Allocations)

\* C5 witness: a restart of an allocator that holds two records, one of them
\* allocated by it (4-byte form) and so reloaded in another form (16 bytes).
C5_Witness ==
    /\ last.op = "New" /\ last.pre.open /\ last.err = ""
    /\ Cardinality(DOMAIN ipam.Allocations) >= 2
    /\ \E id \in DOMAIN ipam.Allocations : ipam.Allocations[id] # last.pre.Allocations[id]

\* C6: Release of a recorded workload removes exactly its record, in memory
\* and in the record file; Release of an unrecorded one succeeds and changes
\* neither.
C6_ReleaseFrame ==
    last.op = "Release" =>
        IF last.id \in DOMAIN last.pre.Allocations
        THEN /\ last.err = ""
             /\ DOMAIN ipam.Allocations = DOMAIN last.pre.Allocations \ {last.id}
             /\ \A k \in DOMAIN ipam.Allocations :
                   ipam.Allocations[k] = last.pre.Allocations[k]
             /\ file.state = "json"
             /\ DOMAIN file.data = DOMAIN last.prefile.data \ {last.id}
             /\ \A k \in DOMAIN file.data : file.data[k] = last.prefile.data[k]
        ELSE /\ last.err = ""
             /\ ipam = last.pre
             /\ file = last.prefile

\* C6 witness: a Release that removed one record of three.
C6_Witness ==
    /\ last.op = "Release" /\ last.id \in DOMAIN last.pre.Allocations
    /\ Cardinality(DOMAIN ipam.Allocations) = 2
    /\ Cardinality(DOMAIN file.data) = 2

----------------------------------------------------------------------------
(* Properties of the lifecycle commands *)

\* The configuration has its required fields, and its subnet and gateway parse.
ValidConf ==
    /\ validate(Machine(links, ipForward, file, dirExists), conf).err = ""
    /\ ParseCIDR(conf.Subnet).ok
    /\ ParseIP(conf.Gateway) # NoIP

HasRecord(f, id) == f.state = "json" /\ id \in DOMAIN f.data

\* C7: a DEL with a valid configuration and a namespace path succeeds whether
\* or not the workload has a record and whether or not the link still exists
\* (the one failure left to it is the kernel refusing to delete a link that
\* exists).
C7_DelTolerant ==
    (lastCmd.cmd = "DEL" /\ ValidConf /\ lastCmd.netns # "")
        => lastCmd.err \in {"", "LinkDelFailed"}

\* The steps of cmdAdd that come after Allocate.
StepsAfterAllocate ==
    {"GetNS", "SetupVeth", "LinkByName", "AddrAdd", "LinkSetUp", "ParseIP", "RouteAdd",
     "LinkByName(hostVeth)", "LinkSetMaster"}

\* C8: when an ADD fails at a step after the allocation, the workload's record
\* with the allocated address is in the record file as the invocation returns,
\* and a record leaves the file only in a DEL for its workload.
C8_AddNotTransactional ==
    [][/\ (lastCmd'.cmd = "ADD" /\ lastCmd'.step \in StepsAfterAllocate)
            => /\ HasRecord(file', lastCmd'.id)
               /\ file'.data[lastCmd'.id] = IPString(lastCmd'.ip)
       /\ \A id \in ContainerIDs :
            (HasRecord(file, id) /\ ~HasRecord(file', id))
                => (lastCmd'.cmd = "DEL" /\ lastCmd'.id = id)]_vars

\* An ADD has failed adding the default route and its record is in the file.
C8_Witness ==
    /\ lastCmd.cmd = "ADD"
    /\ lastCmd.step = "RouteAdd"
    /\ HasRecord(file, lastCmd.id)

\* C9: a CHECK, whatever its outcome, leaves the record file, the data
\* directory, the allocator, ip_forward and every link of both namespaces
\* (the tunnel device, addresses and routes included) as they were.
C9_CheckReadOnly ==
    [][lastCmd'.cmd = "CHECK" => UNCHANGED <<file, dirExists, ipam, ipForward, links>>]_vars

\* A CHECK has failed on a host that holds a record, the tunnel device and a
\* link of the requested name.
C9_Witness ==
    /\ lastCmd.cmd = "CHECK"
    /\ lastCmd.err = "VerifyFailed"
    /\ file.state = "json" /\ DOMAIN file.data # {}
    /\ HasLink(links, HostNS, vxlanName(DefaultVxlanVNI))
    /\ HasLink(links, HostNS, lastCmd.ifname)

\* What CHECK verifies: the tunnel device of the configured identifier, and
\* inside the namespace the link, up, with an address and a default route.
Verifiable(netns, ifname) ==
    /\ HasLink(links, HostNS, vxlanName(conf.VxlanID))
    /\ netns \in Namespaces
    /\ HasLink(links, netns, ifname)
    /\ links[netns][ifname].up
    /\ links[netns][ifname].addrs # {}
    /\ "default" \in links[netns][ifname].routes

C11_CheckAfterAdd ==
    [][(/\ lastCmd.cmd = "ADD" /\ lastCmd.err = ""
        /\ conf.VxlanID = 0
        /\ lastCmd'.cmd = "CHECK"
        /\ lastCmd'.id = lastCmd.id
        /\ lastCmd'.netns = lastCmd.netns
        /\ lastCmd'.ifname = lastCmd.ifname)
            => lastCmd'.err = ""]_vars

----------------------------------------------------------------------------
(* pkg/vxlan called as a library, as its test calls it *)

\* The identifiers the calls are made with: none given to the plugin
\* (DefaultVxlanVNI), and the test's.
VxlanIDs == {DefaultVxlanVNI, 99}

VxlanConfig(host, id) ==
    [HostInterface |-> host, VxlanID |-> id, MTU |-> DefaultMTU]

\* What the host may hold beforehand under a device's name: nothing, or a
\* stale device that is down and has another identifier.
StaleLinks == {<<>>, "vxlan10" :> [Link("vxlan", FALSE, {}, {}) EXCEPT !.vni = 7]}

\* SetupVxlan(config).
CallSetupVxlan(host, id) ==
    \E reject \in {"vxlan.LinkAdd", "none"} :
        \E m \in {SetupVxlan(Machine(links, ipForward, file, dirExists),
                             VxlanConfig(host, id), reject)} :
            /\ links' = m.links
            /\ lastVx' = [op |-> "SetupVxlan", id |-> id, err |-> m.err, pre |-> links]
            /\ UNCHANGED <<conf, file, dirExists, diskFaults, ipam, last, ipForward,
                           lastCmd, procs, mutex>>

\* ConfigureVxlanNetwork(vxlan, subnet), on a device SetupVxlan returned.
CallConfigureVxlanNetwork(id) ==
    /\ HasLink(links, HostNS, vxlanName(id))
    /\ \E reject \in {"vxlan.AddrAdd", "none"} :
        \E m \in {ConfigureVxlanNetwork(Machine(links, ipForward, file, dirExists),
                                        VxlanConfig("eth0", id),
                                        ParseCIDR(Sub30).net, reject)} :
            /\ links' = m.links
            /\ lastVx' = [op |-> "ConfigureVxlanNetwork", id |-> id, err |-> m.err,
                          pre |-> links]
            /\ UNCHANGED <<conf, file, dirExists, diskFaults, ipam, last, ipForward,
                           lastCmd, procs, mutex>>

\* CleanupVxlan(vxlanID).
CallCleanupVxlan(id) ==
    \E reject \in {"LinkDel", "none"} :
        \E r \in {CleanupVxlan(links, id, reject)} :
            /\ links' = r.links
            /\ lastVx' = [op |-> "CleanupVxlan", id |-> id, err |-> r.err, pre |-> links]
            /\ UNCHANGED <<conf, file, dirExists, diskFaults, ipam, last, ipForward,
                           lastCmd, procs, mutex>>

InitVxlan ==
    /\ conf = NetConf("eth0", 0, Sub30, Gw1)
    /\ file = NoFile
    /\ dirExists = FALSE
    /\ diskFaults = FALSE
    /\ ipam = Closed
    /\ last = NoCall
    /\ \E stale \in StaleLinks :
          links = [ns \in Namespaces |-> IF ns = HostNS THEN stale @@ HostLinks ELSE <<>>]
    /\ ipForward = FALSE
    /\ lastCmd = NoCmd
    /\ lastVx = NoVxCall
    /\ procs = NoProcs
    /\ mutex = 0

NextVxlan ==
    \/ \E host \in {"eth0", "eth1", "eth9"}, id \in VxlanIDs : CallSetupVxlan(host, id)
    \/ \E id \in VxlanIDs : CallConfigureVxlanNetwork(id)
    \/ \E id \in VxlanIDs : CallCleanupVxlan(id)

SpecVxlan == InitVxlan /\ [][NextVxlan]_vars

\* The devices of the host that are VXLAN devices with the identifier.
TunnelDevices(id) ==
    {n \in DOMAIN links[HostNS] :
        links[HostNS][n].kind = "vxlan" /\ links[HostNS][n].vni = id}

\* C12: after a successful SetupVxlan, whatever calls came before it, there is
\* exactly one tunnel device with the identifier; its name is vxlan<ID>, and
\* it is up.
C12_SetupVxlanReplaces ==
    (lastVx.op = "SetupVxlan" /\ lastVx.err = "")
        => /\ TunnelDevices(lastVx.id) = {vxlanName(lastVx.id)}
           /\ links[HostNS][vxlanName(lastVx.id)].up
           /\ Cardinality({n \in DOMAIN links[HostNS] : links[HostNS][n].kind = "vxlan"})
                 <= Cardinality(VxlanIDs)

\* SetupVxlan has succeeded where a device of the name, configured before,
\* was in place.
C12_Witness ==
    /\ lastVx.op = "SetupVxlan" /\ lastVx.err = ""
    /\ HasLink(lastVx.pre, HostNS, vxlanName(lastVx.id))
    /\ lastVx.pre[HostNS][vxlanName(lastVx.id)].addrs # {}
    /\ links[HostNS][vxlanName(lastVx.id)].addrs = {}

\* C13: CleanupVxlan returns success and changes nothing when no device has
\* the identifier's name; when one has, it deletes that device and no other;
\* after its success there is no device of the name.
C13_CleanupVxlan ==
    lastVx.op = "CleanupVxlan" =>
        LET name == vxlanName(lastVx.id)
        IN  /\ ~HasLink(lastVx.pre, HostNS, name) => (lastVx.err = "" /\ links = lastVx.pre)
            /\ lastVx.err = "" => ~HasLink(links, HostNS, name)
            /\ lastVx.err = "" =>
                  /\ DOMAIN links[HostNS] = DOMAIN lastVx.pre[HostNS] \ {name}
                  /\ \A n \in DOMAIN links[HostNS] : links[HostNS][n] = lastVx.pre[HostNS][n]
            /\ lastVx.err # "" => links = lastVx.pre

\* CleanupVxlan has deleted a device that was there.
C13_Witness ==
    /\ lastVx.op = "CleanupVxlan" /\ lastVx.err = ""
    /\ HasLink(lastVx.pre, HostNS, vxlanName(lastVx.id))
    /\ ~HasLink(links, HostNS, vxlanName(lastVx.id))

----------------------------------------------------------------------------
(* The commands asked for an interface named as the tunnel device is *)

\* Requests whose interface name may be the tunnel device's.
TunnelNameArgs == [ContainerID : {1}, Netns : NetnsPaths, IfName : {"net1", "vxlan10"}]

InitTunnelName ==
    /\ conf = NetConf("eth0", 10, Sub30, Gw1)
    /\ file = NoFile
    /\ dirExists = FALSE
    /\ diskFaults = FALSE
    /\ ipam = Closed
    /\ last = NoCall
    /\ links = [ns \in Namespaces |-> IF ns = HostNS THEN HostLinks ELSE <<>>]
    /\ ipForward = FALSE
    /\ lastCmd = NoCmd
    /\ lastVx = NoVxCall
    /\ procs = NoProcs
    /\ mutex = 0

NextTunnelName ==
    \E args \in TunnelNameArgs :
        \/ Add(args)
        \/ Del(args)
        \/ Check(args)

SpecTunnelName == InitTunnelName /\ [][NextTunnelName]_vars

\* C14: whatever a DEL returns, every tunnel device the host had before it is
\* there afterwards, unchanged.
C14_DelKeepsTunnel ==
    [][lastCmd'.cmd = "DEL" =>
          \A n \in DOMAIN links[HostNS] :
              links[HostNS][n].kind = "vxlan"
                  => (HasLink(links', HostNS, n) /\ links'[HostNS][n] = links[HostNS][n])]_vars

\* C15: an ADD whose host interface, subnet or gateway is missing or does not
\* parse fails with InvalidConfig, and has by then not enabled forwarding,
\* not touched any link, and not opened the allocator or recorded anything.
C15_ValidationFirst ==
    [][(lastCmd'.cmd = "ADD" /\ ~ValidConf)
          => /\ lastCmd'.err = "InvalidConfig"
             /\ UNCHANGED <<ipForward, links, file, dirExists>>]_vars

----------------------------------------------------------------------------
(* Goroutines calling Allocate and Release on one allocator instance *)

\* The configuration the concurrent callers run on: a small subnet, so that
\* the callers compete for the same few addresses.
SmallConfs ==
    { NetConf("eth0", 10, CIDR(10, 244, 0, 0, 30), Dotted(10, 244, 0, 1)) }

\* Mutant: Lock never finds the mutex held.
Locked_never(mu) == FALSE

\* sync.Mutex: held by some caller.
Locked(mu) == mu # 0

\* The positions of a caller that is between i.mutex.Lock() and the deferred
\* i.mutex.Unlock().
CriticalPCs == {"lookup", "scan", "record", "delete", "save", "unlock"}

InCritical(t) == procs[t].pc \in CriticalPCs

ThreadUnchanged == UNCHANGED <<conf, dirExists, diskFaults, last, links, ipForward, lastCmd, lastVx>>

\* A goroutine calls i.Allocate(id) or i.Release(id): it is now at i.mutex.Lock().
ThreadCall(t, op, id) ==
    /\ procs[t].pc \in {"idle", "done"}
    /\ procs' = [procs EXCEPT ![t] = [Idle EXCEPT !.pc = "lock", !.op = op, !.id = id]]
    /\ UNCHANGED <<ipam, file, mutex>>
    /\ ThreadUnchanged

\* i.mutex.Lock() returns once no other caller holds the mutex.
ThreadLock(t) ==
    /\ procs[t].pc = "lock"
    /\ ~Locked(mutex)
    /\ mutex' = t
    /\ procs' = [procs EXCEPT ![t].pc = "lookup", ![t].mem = ipam.Allocations,
                              ![t].seen = file]
    /\ UNCHANGED <<ipam, file>>
    /\ ThreadUnchanged

\* `ip, ok := i.Allocations[containerID]`: Allocate returns the record if there
\* is one, Release returns if there is none.
ThreadLookup(t) ==
    /\ procs[t].pc = "lookup"
    /\ LET id == procs[t].id
           ok == id \in DOMAIN ipam.Allocations
       IN  procs' = [procs EXCEPT ![t] =
              IF procs[t].op = "Allocate"
              THEN IF ok THEN [@ EXCEPT !.pc = "unlock", !.ip = ipam.Allocations[id]]
                         ELSE [@ EXCEPT !.pc = "scan"]
              ELSE IF ok THEN [@ EXCEPT !.pc = "delete"]
                         ELSE [@ EXCEPT !.pc = "unlock"]]
    /\ UNCHANGED <<ipam, file, mutex>>
    /\ ThreadUnchanged

\* i.findAvailableIP(), over the mapping as it is now.
ThreadScan(t) ==
    /\ procs[t].pc = "scan"
    /\ \E found \in {findAvailableIP(ipam)} :
          procs' = [procs EXCEPT ![t] =
              IF found.err # ""
              THEN [@ EXCEPT !.pc = "unlock", !.err = found.err]
              ELSE [@ EXCEPT !.pc = "record", !.ip = found.ip]]
    /\ UNCHANGED <<ipam, file, mutex>>
    /\ ThreadUnchanged

\* i.Allocations[containerID] = ip
ThreadRecord(t) ==
    /\ procs[t].pc = "record"
    /\ ipam' = [ipam EXCEPT !.Allocations =
                  (procs[t].id :> procs[t].ip)
                      @@ [k \in DOMAIN ipam.Allocations \ {procs[t].id} |-> ipam.Allocations[k]]]
    /\ procs' = [procs EXCEPT ![t].pc = "save"]
    /\ UNCHANGED <<file, mutex>>
    /\ ThreadUnchanged

\* delete(i.Allocations, containerID)
ThreadDelete(t) ==
    /\ procs[t].pc = "delete"
    /\ ipam' = [ipam EXCEPT !.Allocations =
                  [k \in DOMAIN ipam.Allocations \ {procs[t].id} |-> ipam.Allocations[k]]]
    /\ procs' = [procs EXCEPT ![t].pc = "save"]
    /\ UNCHANGED <<file, mutex>>
    /\ ThreadUnchanged

\* i.saveAllocations(): the mapping as it is now, written over the file.
ThreadSave(t) ==
    /\ procs[t].pc = "save"
    /\ \E outcome \in WriteOutcomes :
          \E sv \in {saveAllocations(ipam.Allocations, file, outcome)} :
             /\ file' = sv.file
             /\ procs' = [procs EXCEPT ![t] =
                   IF sv.err # ""
                   THEN [@ EXCEPT !.pc = "unlock", !.err = sv.err, !.ip = NoIP]
                   ELSE [@ EXCEPT !.pc = "unlock"]]
    /\ UNCHANGED <<ipam, mutex>>
    /\ ThreadUnchanged

\* The deferred i.mutex.Unlock(), and the call's return.
ThreadUnlock(t) ==
    /\ procs[t].pc = "unlock"
    /\ mutex' = 0
    /\ procs' = [procs EXCEPT ![t].pc = "done", ![t].mem = <<>>, ![t].seen = NoFile]
    /\ UNCHANGED <<ipam, file>>
    /\ ThreadUnchanged

\* One allocator, opened on an empty data directory.
InitThreads ==
    /\ conf \in SmallConfs
    /\ file = NoFile
    /\ dirExists = TRUE
    /\ diskFaults = FALSE
    /\ ipam = New(conf, NoFile).ipam
    /\ last = NoCall
    /\ links = NoLinks
    /\ ipForward = FALSE
    /\ lastCmd = NoCmd
    /\ lastVx = NoVxCall
    /\ procs = NoProcs
    /\ mutex = 0

NextThreads ==
    \E t \in ProcIDs :
        \/ \E op \in {"Allocate", "Release"}, id \in ContainerIDs : ThreadCall(t, op, id)
        \/ ThreadLock(t)
        \/ ThreadLookup(t)
        \/ ThreadScan(t)
        \/ ThreadRecord(t)
        \/ ThreadDelete(t)
        \/ ThreadSave(t)
        \/ ThreadUnlock(t)

SpecThreads == InitThreads /\ [][NextThreads]_vars

\* No two identifiers of the mapping hold the same address.
Injective(allocs) ==
    \A a, b \in DOMAIN allocs : a # b => ~IPEqual(allocs[a], allocs[b])

\* What the call of caller t gives when run alone on the allocator and the
\* file as they were when t took the mutex.
Alone(t) ==
    LET i == [ipam EXCEPT !.Allocations = procs[t].mem]
    IN  IF procs[t].op = "Allocate"
        THEN Allocate(i, procs[t].id, procs[t].seen, "ok")
        ELSE [ip |-> NoIP] @@ Release(i, procs[t].id, procs[t].seen, "ok")

\* C16: on one allocator instance the critical sections of Allocate and
\* Release never overlap (a caller is between Lock and Unlock only while it
\* holds the mutex, and at most one is); a call that is about to unlock has
\* done to the mapping and the file, and is about to return, what it would
\* have done run alone from the state it locked in; the mapping never holds one
\* address for two identifiers, so two callers whose Allocate calls for
\* distinct identifiers have returned records still held were given distinct
\* addresses.
C16_MutualExclusion ==
    /\ \A a, b \in ProcIDs : (InCritical(a) /\ InCritical(b)) => a = b
    /\ \A t \in ProcIDs : InCritical(t) <=> mutex = t
    /\ \A t \in ProcIDs :
          procs[t].pc = "unlock" =>
             \E r \in {Alone(t)} :
                /\ procs[t].err = r.err
                /\ procs[t].ip = r.ip
                /\ ipam.Allocations = r.ipam.Allocations
                /\ file = r.file
    /\ Injective(ipam.Allocations)
    /\ \A a, b \in ProcIDs :
          (/\ a # b
           /\ procs[a].pc = "done" /\ procs[b].pc = "done"
           /\ procs[a].op = "Allocate" /\ procs[b].op = "Allocate"
           /\ procs[a].err = "" /\ procs[b].err = ""
           /\ procs[a].id # procs[b].id
           /\ procs[a].id \in DOMAIN ipam.Allocations
           /\ procs[b].id \in DOMAIN ipam.Allocations
           /\ ipam.Allocations[procs[a].id] = procs[a].ip
           /\ ipam.Allocations[procs[b].id] = procs[b].ip)
          => ~IPEqual(procs[a].ip, procs[b].ip)

\* Two Allocate calls for distinct identifiers are in flight at once: one
\* caller has found a free address and recorded it and is about to save, the
\* other waits at Lock.
C16_Witness ==
    \E a, b \in ProcIDs :
        /\ a # b
        /\ procs[a].op = "Allocate" /\ procs[b].op = "Allocate"
        /\ procs[a].id # procs[b].id
        /\ procs[a].pc = "save" /\ procs[a].ip # NoIP
        /\ procs[b].pc = "lock"

----------------------------------------------------------------------------
(* Plugin processes on one data directory, each with an allocator of its own *)

ProcUnchanged ==
    UNCHANGED <<conf, diskFaults, ipam, last, links, ipForward, lastCmd, lastVx, mutex>>

\* A plugin process is started for an ADD of container id and reaches
\* ipam.New: the directory is made and the record file is read into the
\* mapping of the process's own allocator.
ProcNew(p, op, id) ==
    /\ procs[p].pc = "idle"
    /\ \E r \in {New(conf, file)} :
          /\ dirExists' = (dirExists \/ r.mkdir)
          /\ procs' = [procs EXCEPT ![p] =
                IF r.err # ""
                THEN [Idle EXCEPT !.pc = "done", !.op = op, !.id = id, !.err = r.err]
                ELSE [Idle EXCEPT !.pc = "loaded", !.op = op, !.id = id,
                                  !.mem = r.ipam.Allocations, !.seen = file]]
    /\ UNCHANGED file
    /\ ProcUnchanged

\* The process's Allocate up to its saveAllocations: the look-up, the scan
\* and the record made in the process's own mapping.
ProcModify(p) ==
    /\ procs[p].pc = "loaded"
    /\ LET id == procs[p].id
           mem == procs[p].mem
           i == [open |-> TRUE, Subnet |-> ParseCIDR(conf.Subnet).net,
                 Gateway |-> ParseIP(conf.Gateway), Allocations |-> mem]
       IN  \E found \in {findAvailableIP(i)} :
             procs' = [procs EXCEPT ![p] =
                IF id \in DOMAIN mem
                THEN [@ EXCEPT !.pc = "done", !.ip = mem[id], !.mem = <<>>]
                ELSE IF found.err # ""
                THEN [@ EXCEPT !.pc = "done", !.err = found.err, !.mem = <<>>]
                ELSE [@ EXCEPT !.pc = "save", !.ip = found.ip,
                               !.mem = (id :> found.ip) @@ mem]]
    /\ UNCHANGED <<file, dirExists>>
    /\ ProcUnchanged

\* The process's saveAllocations: its own mapping written over the file; the
\* call returns and the process goes on without touching the file again.
ProcSave(p) ==
    /\ procs[p].pc = "save"
    /\ \E outcome \in WriteOutcomes :
          \E sv \in {saveAllocations(procs[p].mem, file, outcome)} :
             /\ file' = sv.file
             /\ procs' = [procs EXCEPT ![p] =
                   IF sv.err # ""
                   THEN [@ EXCEPT !.pc = "done", !.err = sv.err, !.ip = NoIP, !.mem = <<>>]
                   ELSE [@ EXCEPT !.pc = "done", !.mem = <<>>]]
    /\ UNCHANGED dirExists
    /\ ProcUnchanged

\* The data directory before the processes start: not there yet, or left by
\* an earlier ADD with its one record.
InitProcs ==
    /\ conf \in SmallConfs
    /\ \/ file = NoFile /\ dirExists = FALSE
       \/ \E id \in ContainerIDs :
             /\ file = Allocate(New(conf, NoFile).ipam, id, NoFile, "ok").file
             /\ dirExists = TRUE
    /\ diskFaults = FALSE
    /\ ipam = Closed
    /\ last = NoCall
    /\ links = NoLinks
    /\ ipForward = FALSE
    /\ lastCmd = NoCmd
    /\ lastVx = NoVxCall
    /\ procs = NoProcs
    /\ mutex = 0

NextProcs ==
    \E p \in ProcIDs :
        \/ \E id \in ContainerIDs : ProcNew(p, "Allocate", id)
        \/ ProcModify(p)
        \/ ProcSave(p)

SpecProcs == InitProcs /\ [][NextProcs]_vars

\* Process p has returned from a successful Allocate.
Allocated(p) ==
    procs[p].pc = "done" /\ procs[p].op = "Allocate" /\ procs[p].err = ""

\* The file, as process p read it, held address ip for identifier id.
Saw(p, id, ip) ==
    id \in DOMAIN procs[p].seen.data /\ procs[p].seen.data[id] = IPString(ip)

\* C17: nothing serialises the processes: a save writes the saving process's
\* own mapping over the file whatever the file holds, so every record that
\* another process saved after this one read the file is lost; a process is
\* never kept from reading or saving by another that is between its read and
\* its save; and whenever two processes have been given the same address for
\* distinct identifiers, neither had read the other's record.
C17_CrossProcessRace ==
    [][/\ \A p \in ProcIDs :
             (procs[p].pc = "save" /\ procs'[p].pc = "done")
                => /\ file'.state = "json"
                   /\ DOMAIN file'.data = DOMAIN procs[p].mem
                   /\ \A id \in DOMAIN file.data \ DOMAIN procs[p].mem :
                         id \notin DOMAIN file'.data
       /\ \A p \in ProcIDs :
             /\ procs[p].pc = "idle" => ENABLED ProcNew(p, "Allocate", 1)
             /\ procs[p].pc = "save" => ENABLED ProcSave(p)
       /\ \A p, q \in ProcIDs :
             (/\ p # q
              /\ Allocated(p) /\ Allocated(q)
              /\ procs[p].id # procs[q].id
              /\ IPEqual(procs[p].ip, procs[q].ip))
             => /\ ~Saw(p, procs[q].id, procs[q].ip)
                /\ ~Saw(q, procs[p].id, procs[p].ip)]_vars

\* Two processes have returned from Allocate for distinct identifiers with the
\* same address, and the file holds the record of only one of them.
C17_Witness ==
    \E p, q \in ProcIDs :
        /\ p # q
        /\ Allocated(p) /\ Allocated(q)
        /\ procs[p].id # procs[q].id
        /\ IPEqual(procs[p].ip, procs[q].ip)
        /\ procs[p].id \notin DOMAIN file.data
        /\ procs[q].id \in DOMAIN file.data

\* The position in cmdAdd of the step an ADD ended at: 1 the validation,
\* 2 ip_forward, 3 SetupVxlan, 4 the subnet parsed and put on the device,
\* 5 New and Allocate, 6 the veth pair, 7 the configuration inside the
\* namespace, 8 the host veth enslaved, 9 the result printed (no step failed).
StepNo(step) ==
    IF step = "validate" THEN 1
    ELSE IF step = "sysctl" THEN 2
    ELSE IF step = "SetupVxlan" THEN 3
    ELSE IF step \in {"ParseCIDR", "ConfigureVxlanNetwork"} THEN 4
    ELSE IF step \in {"ipam.New", "Allocate"} THEN 5
    ELSE IF step \in {"GetNS", "SetupVeth"} THEN 6
    ELSE IF step \in {"LinkByName", "AddrAdd", "LinkSetUp", "ParseIP", "RouteAdd"} THEN 7
    ELSE IF step \in {"LinkByName(hostVeth)", "LinkSetMaster"} THEN 8
    ELSE 9

\* No link other than the one named dev has appeared, or has changed its
\* addresses, its routes or its up flag, between L and M.
NoLinkTouched(L, M, dev) ==
    \A ns \in Namespaces :
        /\ DOMAIN M[ns] \ {dev} \subseteq DOMAIN L[ns]
        /\ \A n \in DOMAIN M[ns] \ {dev} :
              /\ M[ns][n].addrs = L[ns][n].addrs
              /\ M[ns][n].routes = L[ns][n].routes
              /\ M[ns][n].up = L[ns][n].up

\* C18: an ADD that ends at step n has done what the steps before n do, in
\* their order, and nothing of what the steps after n do: forwarding is on
\* once step 2 is passed, the tunnel device is there and up once step 3 is
\* passed and carries the subnet once step 4 is passed, the record is in the
\* file once step 5 is passed, the veth pair exists once step 6 is passed,
\* the namespace link has its address, is up and has the default route once
\* step 7 is passed, the host veth is enslaved and the result is printed
\* only when no step failed; and an ADD that ends at step 4 or earlier (the
\* tunnel, the subnet) has left the record file and the data directory as
\* they were, one that ends at step 6 or earlier has created no veth and
\* configured no link, one that ends at step 8 or earlier prints no result.
C18_AddStepOrder ==
    [][lastCmd'.cmd = "ADD" =>
         \E n \in {StepNo(lastCmd'.step)}, vx \in {vxlanName(addDefaults(conf).VxlanID)} :
            /\ (lastCmd'.err = "") <=> (n = 9)
            /\ n <= 2 => (links' = links /\ ipForward' = ipForward)
            /\ n > 2 => ipForward'
            /\ n > 3 => /\ HasLink(links', HostNS, vx)
                        /\ links'[HostNS][vx].kind = "vxlan"
                        /\ links'[HostNS][vx].up
            /\ n <= 4 => (file' = file /\ dirExists' = dirExists /\ lastCmd'.ip = NoIP)
            /\ n > 4 => ParseCIDR(conf.Subnet).net \in links'[HostNS][vx].addrs
            /\ n > 5 => /\ HasRecord(file', lastCmd'.id)
                        /\ file'.data[lastCmd'.id] = IPString(lastCmd'.ip)
                        /\ dirExists'
            /\ n <= 6 => (lastCmd'.hostVeth = "" /\ NoLinkTouched(links, links', vx))
            /\ n > 6 => /\ lastCmd'.hostVeth # ""
                        /\ HasLink(links', HostNS, lastCmd'.ifname)
                        /\ HasLink(links', lastCmd'.netns, lastCmd'.hostVeth)
            /\ n > 7 => \E l \in {links'[lastCmd'.netns][lastCmd'.ifname]} :
                           /\ l.up
                           /\ "default" \in l.routes
                           /\ \E a \in l.addrs : a.IP = To4(lastCmd'.ip)
            /\ n <= 8 => /\ lastCmd'.result = NoResult
                         /\ \A h \in DOMAIN links'[HostNS] :
                               links'[HostNS][h].master # ""
                                  => /\ h \in DOMAIN links[HostNS]
                                     /\ links[HostNS][h].master = links'[HostNS][h].master
            /\ n > 8 => /\ links'[HostNS][lastCmd'.hostVeth].master = vx
                        /\ lastCmd'.result # NoResult]_vars

\* An ADD has failed putting the subnet on the tunnel device: forwarding is
\* on, the device is there, and the record file holds no record for the
\* workload.
C18_Witness ==
    /\ lastCmd.cmd = "ADD"
    /\ lastCmd.step = "ConfigureVxlanNetwork"
    /\ ipForward
    /\ HasLink(links, HostNS, "vxlan10")
    /\ ~HasRecord(file, lastCmd.id)

\* C19: a DEL without a namespace path leaves every link as it was; a DEL
\* with the path of a namespace other than the host's removes no link of the
\* host's namespace, and when it succeeds the link of the requested name is
\* gone from the target namespace.
C19_DelNamespaceLink ==
    [][lastCmd'.cmd = "DEL" =>
         /\ lastCmd'.netns = "" => links' = links
         /\ (lastCmd'.netns \in Namespaces /\ lastCmd'.netns # HostNS)
               => /\ DOMAIN links[HostNS] \subseteq DOMAIN links'[HostNS]
                  /\ lastCmd'.err = ""
                        => ~HasLink(links', lastCmd'.netns, lastCmd'.ifname)]_vars

\* C20: after a successful ADD the address of the printed result is the
\* address the record file holds for the container and, with the subnet's
\* mask, an address of the link named as requested in the requested
\* namespace; the result's gateway is the configuration's; and its interfaces
\* are three: the requested name with the namespace as sandbox, the host veth
\* and the tunnel device, each an existing link.
C20_ResultConsistent ==
    (lastCmd.cmd = "ADD" /\ lastCmd.err = "")
        => \E r \in {lastCmd.result} :
              /\ r.Address.IP # NoIP
              /\ HasRecord(file, lastCmd.id)
              /\ file.data[lastCmd.id] = IPString(r.Address.IP)
              /\ HasLink(links, lastCmd.netns, lastCmd.ifname)
              /\ [IP |-> To4(r.Address.IP), Mask |-> r.Address.Mask]
                     \in links[lastCmd.netns][lastCmd.ifname].addrs
              /\ r.Address.Mask = ParseCIDR(conf.Subnet).net.Mask
              /\ r.Gateway # NoIP
              /\ r.Gateway = ParseIP(conf.Gateway)
              /\ Len(r.Interfaces) = 3
              /\ r.Interfaces[1] = [Name |-> lastCmd.ifname, Sandbox |-> lastCmd.netns]
              /\ r.Interfaces[2].Name = lastCmd.hostVeth
              /\ \E ns \in Namespaces :
                    /\ HasLink(links, ns, r.Interfaces[2].Name)
                    /\ links[ns][r.Interfaces[2].Name].kind = "veth"
              /\ r.Interfaces[3].Name = vxlanName(addDefaults(conf).VxlanID)
              /\ HasLink(links, HostNS, r.Interfaces[3].Name)
              /\ links[HostNS][r.Interfaces[3].Name].kind = "vxlan"

\* An ADD has succeeded: its result carries an address and three interfaces,
\* and the record file holds a record for the container.
C20_Witness ==
    /\ lastCmd.cmd = "ADD"
    /\ lastCmd.err = ""
    /\ Len(lastCmd.result.Interfaces) = 3
    /\ HasRecord(file, lastCmd.id)
    /\ lastCmd.result.Address.IP # NoIP

----------------------------------------------------------------------------
(* Properties of the allocator on a disk whose writes may fail *)

\* C21: whenever Allocate returns an address without error, the record file
\* holds that address for the workload; and an Allocate whose save fails
\* returns an error and no address.
C21_DurableAllocation ==
    /\ (last.op = "Allocate" /\ last.err = "")
          => /\ HasRecord(file, last.id)
             /\ file.data[last.id] = IPString(last.ip)
    /\ (last.op = "Allocate" /\ last.err = "PersistenceError") => last.ip = NoIP

----------------------------------------------------------------------------
(* Properties of consecutive ADDs *)

C23_UsableAddress ==
    (last.op = "Allocate" /\ last.err = "")
        => \E k \in 1..(BroadcastOffset - 1) : AddrAt(k) = To4(last.ip)

----------------------------------------------------------------------------
(* The allocator opened on a data directory as it may be found *)

\* The configurations the allocator is opened with: one that parses, one
\* whose gateway does not, one whose subnet and gateway do not.
StoreConfs ==
    { NetConf("eth0", 10, Sub30, Gw1),
      NetConf("eth0", 10, Sub30, Text("bogus")),
      NetConf("eth0", 10, Text("bogus"), Text("bogus")) }

\* What allocations.json may hold when the allocator is opened: nothing (no
\* file), bytes that are not JSON, a mapping with an entry that is not an
\* address, a mapping written by an earlier allocator.
StoreFiles ==
    { NoFile,
      CorruptFile,
      JSONFile((1 :> Dotted(10, 244, 0, 2)) @@ (2 :> Text("bogus"))),
      JSONFile(1 :> Dotted(10, 244, 0, 2)) }

InitStore ==
    /\ conf \in StoreConfs
    /\ file \in StoreFiles
    /\ dirExists = (file # NoFile)
    /\ diskFaults = FALSE
    /\ ipam = Closed
    /\ last = NoCall
    /\ links = NoLinks
    /\ ipForward = FALSE
    /\ lastCmd = NoCmd
    /\ lastVx = NoVxCall
    /\ procs = NoProcs
    /\ mutex = 0

SpecStore == InitStore /\ [][NextIPAM]_vars

\* The record file cannot be parsed: it is not JSON, or one of its entries
\* is not the text of an address.
Unparseable(f) ==
    \/ f.state = "corrupt"
    \/ f.state = "json" /\ \E id \in DOMAIN f.data : "dotted" \notin DOMAIN f.data[id]

\* C24: with a configuration that parses, New on a data directory without a
\* record file succeeds with an empty mapping (and creates no file); New on
\* a record file that cannot be parsed fails with CorruptState, gives no
\* allocator, and leaves the file as it was; New on any other file succeeds.
C24_LoadOutcomes ==
    (last.op = "New" /\ ParseCIDR(conf.Subnet).ok /\ ParseIP(conf.Gateway) # NoIP)
        => /\ file = last.prefile
           /\ last.prefile.state = "absent"
                 => (last.err = "" /\ ipam.open /\ ipam.Allocations = <<>>)
           /\ Unparseable(last.prefile)
                 => (last.err = "CorruptState" /\ ipam = Closed)
           /\ (last.prefile.state # "absent" /\ ~Unparseable(last.prefile))
                 => (last.err = "" /\ ipam.open
                     /\ DOMAIN ipam.Allocations = DOMAIN last.prefile.data)

\* New has failed on a record file that is JSON with an entry that is not an
\* address, and the file is as it was.
C24_Witness ==
    /\ last.op = "New"
    /\ last.err = "CorruptState"
    /\ file.state = "json"
    /\ \E id \in DOMAIN file.data : file.data[id] = Text("bogus")
    /\ ~ipam.open

\* C25: New with a gateway that does not parse (and a subnet that does) fails
\* with the invalid-gateway error whatever the data directory holds, gives no
\* allocator, and has neither created the data directory nor changed the
\* record file; no Allocate or Release runs until a New has succeeded.
C25_GatewayFirst ==
    [][/\ (last'.op = "New" /\ ParseCIDR(conf.Subnet).ok /\ ParseIP(conf.Gateway) = NoIP)
            => /\ last'.err = "InvalidGateway"
               /\ ipam' = Closed
               /\ dirExists' = dirExists
               /\ file' = file
       /\ (last'.op \in {"Allocate", "Release"} /\ last' # last) => ipam.open]_vars

\* New has failed on the gateway where the data directory did not exist: the
\* directory is still not there, and there is no record file.
C25_Witness ==
    /\ last.op = "New"
    /\ last.err = "InvalidGateway"
    /\ ~dirExists
    /\ file = NoFile
    /\ ParseCIDR(conf.Subnet).ok

----------------------------------------------------------------------------
(* findAvailableIP, one pass of its loop at a time *)

\* The subnets and gateways the scan runs on: a /30 with the gateway first,
\* in the middle, last (the broadcast address) and outside; the /30 at the
\* top of the address space, where inc wraps to 0.0.0.0, with the gateway
\* first and last; a single address; the whole address space.
ScanConfs ==
    { NetConf("eth0", 10, CIDR(10, 244, 0, 0, 30), Dotted(10, 244, 0, 1)),
      NetConf("eth0", 10, CIDR(10, 244, 0, 0, 30), Dotted(10, 244, 0, 2)),
      NetConf("eth0", 10, CIDR(10, 244, 0, 0, 30), Dotted(10, 244, 0, 3)),
      NetConf("eth0", 10, CIDR(10, 244, 0, 0, 30), Dotted(10, 244, 1, 1)),
      NetConf("eth0", 10, CIDR(255, 255, 255, 252, 30), Dotted(255, 255, 255, 253)),
      NetConf("eth0", 10, CIDR(255, 255, 255, 252, 30), Dotted(255, 255, 255, 255)),
      NetConf("eth0", 10, CIDR(10, 244, 0, 5, 32), Dotted(10, 244, 0, 5)),
      NetConf("eth0", 10, CIDR(0, 0, 0, 0, 0), Dotted(0, 0, 0, 1)) }

\* The addresses the records of a mapping may hold: the first four of the
\* subnet and the one after them, as loadAllocations leaves them (16 bytes).
ScanAddrs(net) ==
    {v4InV6Prefix \o a :
        a \in {net.IP, inc(net.IP), inc(inc(net.IP)), inc(inc(inc(net.IP))),
               inc(inc(inc(inc(net.IP))))}}

\* The mappings the scan runs on: any records for any of the workloads.
ScanMappings(net) ==
    UNION {[ids -> ScanAddrs(net)] : ids \in SUBSET WorkloadIDs}

ScanUnchanged ==
    UNCHANGED <<conf, file, dirExists, diskFaults, ipam, last, links, ipForward,
                lastCmd, lastVx, mutex>>

\* findAvailableIP is entered: the candidate is the network address + 1, or
\* the address after it if that is the gateway.
ScanStart(p) ==
    /\ procs[p].pc \in {"idle", "done"}
    /\ procs' = [procs EXCEPT ![p] =
          [Idle EXCEPT !.pc = "loop", !.op = "findAvailableIP",
                       !.ip = skipGateway(inc(ipam.Subnet.IP), ipam.Gateway)]]
    /\ ScanUnchanged

\* One pass of the `for`: the candidate outside the subnet is the error, the
\* candidate no record holds is returned, else the candidate is advanced, and
\* once more if it is then the gateway.
ScanPass(p) ==
    /\ procs[p].pc = "loop"
    /\ procs' = [procs EXCEPT ![p] =
          IF ~Contains(ipam.Subnet, procs[p].ip)
          THEN [@ EXCEPT !.pc = "done", !.err = "SubnetExhausted", !.ip = NoIP]
          ELSE IF ~allocated(ipam.Allocations, procs[p].ip)
          THEN [@ EXCEPT !.pc = "done"]
          ELSE [@ EXCEPT !.ip = skipGateway(inc(procs[p].ip), ipam.Gateway)]]
    /\ ScanUnchanged

\* An open allocator with any of the mappings.
InitScan ==
    /\ conf \in ScanConfs
    /\ file = NoFile
    /\ dirExists = TRUE
    /\ diskFaults = FALSE
    /\ \E allocs \in ScanMappings(ParseCIDR(conf.Subnet).net) :
          ipam = [New(conf, NoFile).ipam EXCEPT !.Allocations = allocs]
    /\ last = NoCall
    /\ links = NoLinks
    /\ ipForward = FALSE
    /\ lastCmd = NoCmd
    /\ lastVx = NoVxCall
    /\ procs = NoProcs
    /\ mutex = 0

NextScan == ScanStart(1) \/ ScanPass(1)

SpecScan == InitScan /\ [][NextScan]_vars

\* The goroutine that runs the scan keeps running.
SpecScanFair == SpecScan /\ WF_vars(ScanPass(1))

\* a comes before b, as 4-byte addresses read as numbers.
Before(a, b) ==
    \E i \in 1..4 : a[i] < b[i] /\ \A j \in 1..(i - 1) : a[j] = b[j]

====
